---- MODULE Spec2Model ----
(***************************************************************************)
(* LRCLIBup: the synced-lyrics integrity engine (lrcNormalizer.ts,         *)
(* lrcValidator.ts) and the submission flow of routes/+page.svelte.        *)
(*                                                                         *)
(* Text is modelled at token level.  A line is a sequence of tokens, a     *)
(* content (a string holding "\n") is the sequence of its lines as          *)
(* String.split("\n") returns them, so a content always has at least one   *)
(* line and the empty string is << <<>> >>.  A token is an atomic piece of *)
(* text on which the regular expressions of the source decide as a whole:  *)
(*   ts    a bracket timestamp [mm:ss.ff] or [mm:ss.fff]; mm, ss, frac are *)
(*         the values parseInt gives, digits the length of the fraction    *)
(*   meta  a metadata tag opener such as "[ti:"                            *)
(*   elrc  an angle-bracket word timestamp such as "<00:01.00>"            *)
(*   sp    a white-space character that "." matches (space, tab)           *)
(*   cr    a line terminator other than "\n" ("\r"): white space for       *)
(*         trim(), but not matched by "."                                  *)
(*   ch    any other character; mm tells two of them apart                 *)
(***************************************************************************)
EXTENDS Integers, Sequences, FiniteSets, TLC

\* ------------------------------------------------------------------ bounds

\* the largest number of lines of an input content
MaxLines == 3

\* ------------------------------------------------------------------ tokens

Tok(kind, id) == [k |-> kind, mm |-> id, ss |-> 0, frac |-> 0, digits |-> 0]

TS(m, s, f, d) == [k |-> "ts", mm |-> m, ss |-> s, frac |-> f, digits |-> d]

SP == Tok("sp", 0)
CR == Tok("cr", 0)
META == Tok("meta", 0)
ELRC == Tok("elrc", 0)
ChA == Tok("ch", 1)
ChB == Tok("ch", 2)

IsTs(t) == t.k = "ts"

IsSpace(t) == t.k \in {"sp", "cr"}

\* ------------------------------------------------------------ string layer

\* String.prototype.trim on a line
RECURSIVE TrimLeft(_)
TrimLeft(s) ==
    IF s # <<>> /\ IsSpace(Head(s)) THEN TrimLeft(Tail(s)) ELSE s

RECURSIVE TrimRight(_)
TrimRight(s) ==
    IF s # <<>> /\ IsSpace(s[Len(s)]) THEN TrimRight(SubSeq(s, 1, Len(s) - 1)) ELSE s

Trim(s) == TrimRight(TrimLeft(s))

\* Array.prototype.join("\n") read back as a content: no element gives the
\* empty string, which is one empty line
Join(ls) == IF ls = <<>> THEN << <<>> >> ELSE ls

\* /^\[(ti|ar|al|length|offset):/i.test(line)
IsMetadata(line) == line # <<>> /\ Head(line).k = "meta"

\* the matches of /\[(\d{2}):(\d{2})\.(\d{2,3})\]/g on a line, in order
RECURSIVE AllTimestamps(_)
AllTimestamps(line) ==
    IF line = <<>> THEN <<>>
    ELSE IF IsTs(Head(line)) THEN <<Head(line)>> \o AllTimestamps(Tail(line))
    ELSE AllTimestamps(Tail(line))

\* (.*)$ directly after a match at the start: "." matches no line terminator
DotStar(s) == \A i \in 1..Len(s) : s[i].k # "cr"

\* /^\[(\d{2}):(\d{2})\.(\d{2,3})\]/ on a line
StartsWithTimestamp(line) == line # <<>> /\ IsTs(Head(line))

\* String.prototype.lastIndexOf of a token; 0 when absent
RECURSIVE LastIndexOf(_, _)
LastIndexOf(line, t) ==
    IF line = <<>> THEN 0
    ELSE IF line[Len(line)] = t THEN Len(line)
    ELSE LastIndexOf(SubSeq(line, 1, Len(line) - 1), t)

\* Math.round(n / d) for n >= 0, d > 0: halves round up
Round(n, d) == (2 * n + d) \div (2 * d)

\* ------------------------------------------------- lrcNormalizer.ts

\* the length of Number.prototype.toString() of 0 <= n < 1000
DecimalLength(n) == IF n < 10 THEN 1 ELSE IF n < 100 THEN 2 ELSE 3

\* the length of s.padStart(2, "0") for a string of length n
PadStart2(n) == IF n < 2 THEN 2 ELSE n

\* normalizeTimestamp: the token re-emitted.  A three-digit fraction becomes
\* Math.round(parseInt(ms) / 10).toString().padStart(2, "0"), a two-digit
\* one is kept
normalizeTimestamp(t) ==
    IF ~IsTs(t) THEN t
    ELSE IF t.digits = 3
         THEN LET ms == Round(t.frac, 10)
              IN  TS(t.mm, t.ss, ms, PadStart2(DecimalLength(ms)))
         ELSE TS(t.mm, t.ss, t.frac, PadStart2(t.digits))

\* normalizeLRC that rewrites only lines of more than two timestamps
NormalizeLine_FromThree(rawLine) ==
    LET line == Trim(rawLine)
        timestamps == AllTimestamps(line)
    IN  IF line = <<>> \/ IsMetadata(line) THEN <<line>>
        ELSE IF Len(timestamps) <= 2 THEN <<line>>
        ELSE LET lastTimestamp == timestamps[Len(timestamps)]
                 lastTimestampIndex == LastIndexOf(line, lastTimestamp)
                 lyricsText == SubSeq(line, lastTimestampIndex + 1, Len(line))
             IN  [i \in 1..Len(timestamps) |->
                     <<normalizeTimestamp(timestamps[i])>> \o lyricsText]

\* the lines normalizeLRC pushes for one raw line
NormalizeLine(rawLine) ==
    LET line == Trim(rawLine)
        timestamps == AllTimestamps(line)
    IN  IF line = <<>> \/ IsMetadata(line) THEN <<line>>
        ELSE IF Len(timestamps) <= 1 THEN <<line>>
        ELSE LET lastTimestamp == timestamps[Len(timestamps)]
                 lastTimestampIndex == LastIndexOf(line, lastTimestamp)
                 lyricsText == SubSeq(line, lastTimestampIndex + 1, Len(line))
             IN  [i \in 1..Len(timestamps) |->
                     <<normalizeTimestamp(timestamps[i])>> \o lyricsText]

\* whether normalizeLRC counts the raw line as a change
IsRewritten(rawLine) ==
    LET line == Trim(rawLine)
    IN  line # <<>> /\ ~IsMetadata(line) /\ Len(AllTimestamps(line)) > 1

\* extractPlainLyrics: the lines pushed to plainLines
RECURSIVE PlainLines(_)
PlainLines(lines) ==
    IF lines = <<>> THEN <<>>
    ELSE LET trimmed == Trim(Head(lines))
             rest == PlainLines(Tail(lines))
         IN  IF trimmed = <<>> THEN rest
             ELSE IF IsMetadata(trimmed) THEN rest
             ELSE IF StartsWithTimestamp(trimmed) /\ DotStar(Tail(trimmed))
                  THEN LET lyrics == Trim(Tail(trimmed))
                       IN  IF lyrics # <<>> THEN <<lyrics>> \o rest ELSE rest
                  ELSE rest

extractPlainLyrics(syncedLyrics) == Join(PlainLines(syncedLyrics))

\* the forEach of normalizeLRC: [lines, changes, expanded] after the raw lines
RECURSIVE NormalizeLoop(_, _)
NormalizeLoop(lines, acc) ==
    IF lines = <<>> THEN acc
    ELSE LET out == NormalizeLine(Head(lines))
             hit == IsRewritten(Head(lines))
         IN  NormalizeLoop(Tail(lines),
                 [lines |-> acc.lines \o out,
                  changes |-> acc.changes + (IF hit THEN 1 ELSE 0),
                  expanded |-> acc.expanded + (IF hit THEN Len(out) ELSE 0)])

normalizeLRC(c) ==
    LET acc == NormalizeLoop(c, [lines |-> <<>>, changes |-> 0, expanded |-> 0])
        normalized == Join(acc.lines)
    IN  [normalized |-> normalized,
         plainLyrics |-> extractPlainLyrics(normalized),
         changes |-> acc.changes,
         expandedLines |-> acc.expanded]

\* the sort key sortLRCLines computes for a line that starts with a timestamp
SortKey(t) == t.mm * 60000 + t.ss * 1000 + t.frac * 10

\* Array.prototype.sort((a, b) => a.timestamp - b.timestamp): a stable sort
RECURSIVE InsertSorted(_, _)
InsertSorted(sortedItems, item) ==
    IF sortedItems = <<>> THEN <<item>>
    ELSE IF item.timestamp - Head(sortedItems).timestamp < 0
         THEN <<item>> \o sortedItems
         ELSE <<Head(sortedItems)>> \o InsertSorted(Tail(sortedItems), item)

RECURSIVE StableSort(_)
StableSort(items) ==
    IF items = <<>> THEN <<>>
    ELSE InsertSorted(StableSort(SubSeq(items, 1, Len(items) - 1)), items[Len(items)])

\* the forEach of sortLRCLines: the three buckets
RECURSIVE SortBuckets(_, _)
SortBuckets(lines, acc) ==
    IF lines = <<>> THEN acc
    ELSE LET trimmed == Trim(Head(lines))
         IN  SortBuckets(Tail(lines),
                 IF IsMetadata(trimmed)
                 THEN [acc EXCEPT !.metadataLines = @ \o <<trimmed>>]
                 ELSE IF StartsWithTimestamp(trimmed)
                 THEN [acc EXCEPT !.timedLines =
                          @ \o <<[timestamp |-> SortKey(Head(trimmed)), line |-> trimmed]>>]
                 ELSE IF trimmed # <<>>
                 THEN [acc EXCEPT !.otherLines = @ \o <<trimmed>>]
                 ELSE acc)

\* sortLRCLines that puts the other lines before the timestamped ones
sortLRCLines_OtherFirst(c) ==
    LET b == SortBuckets(c, [metadataLines |-> <<>>, timedLines |-> <<>>, otherLines |-> <<>>])
        timed == StableSort(b.timedLines)
    IN  Join(b.metadataLines \o b.otherLines \o [i \in 1..Len(timed) |-> timed[i].line])

sortLRCLines(c) ==
    LET b == SortBuckets(c, [metadataLines |-> <<>>, timedLines |-> <<>>, otherLines |-> <<>>])
        timed == StableSort(b.timedLines)
    IN  Join(b.metadataLines \o [i \in 1..Len(timed) |-> timed[i].line] \o b.otherLines)

normalizeAndSortLRC(c) ==
    LET normalizeResult == normalizeLRC(c)
        sorted == sortLRCLines(normalizeResult.normalized)
    IN  [normalized |-> sorted,
         plainLyrics |-> extractPlainLyrics(sorted),
         changes |-> normalizeResult.changes,
         expandedLines |-> normalizeResult.expandedLines]

\* ------------------------------------------------- lrcValidator.ts

IssueTypes ==
    {"multi-timestamp", "invalid-format", "invalid-timestamp", "out-of-order",
     "negative-timestamp", "duplicate-timestamp", "excessive-gap",
     "timestamp-overlap", "no-timestamps", "elrc-word-timing"}

\* an LRCValidationIssue: ref is the line number its message names (0: none),
\* num the number its message shows (0: none)
Issue(l, t, sev, r, n) == [line |-> l, type |-> t, severity |-> sev, ref |-> r, num |-> n]

\* parseTimestampToMs with the fraction taken as written, whatever its length
parseTimestampToMs_NoRound(t) ==
    IF ~IsTs(t) THEN <<>>
    ELSE <<t.mm * 60000 + t.ss * 1000 + t.frac * 10>>

\* parseTimestampToMs: <<>> for null, else <<milliseconds>>
parseTimestampToMs(t) ==
    IF ~IsTs(t) THEN <<>>
    ELSE LET ms == IF t.digits = 3 THEN Round(t.frac, 10) ELSE t.frac
         IN  <<t.mm * 60000 + t.ss * 1000 + ms * 10>>

\* the matches of /<\d{1,2}:\d{2}\.\d{2,3}>/g on a line
ElrcMatches(line) == SelectSeq(line, LAMBDA t : t.k = "elrc")

\* PATTERNS.SINGLE_TIMESTAMP.test(line)
MatchesSingleTimestamp(line) == StartsWithTimestamp(line) /\ DotStar(Tail(line))

\* the threshold of the excessive-gap pass, in ms
ExcessiveGapMs == 30000

\* the threshold of the timestamp-overlap pass, in ms
OverlapGapMs == 100

\* Map.prototype.set on seenTimestamps
MapSet(m, key, val) ==
    [x \in DOMAIN m \cup {key} |-> IF x = key THEN val ELSE m[x]]

\* the body of forEach where a multi-timestamp line, after its warning, goes
\* on as a line of its first timestamp
ValidateLine_MultiTimed(st, rawLine, index) ==
    LET line == Trim(rawLine)
        elrcMatches == ElrcMatches(line)
        st0 == IF Len(elrcMatches) > 0
               THEN [st EXCEPT !.elrcCount = @ + 1,
                               !.issues = @ \o <<Issue(index + 1, "elrc-word-timing", "error",
                                                       0, Len(elrcMatches))>>]
               ELSE st
        timestamps == AllTimestamps(line)
        st1 == IF Len(timestamps) > 1
               THEN [st0 EXCEPT !.multiTimestampCount = @ + 1,
                                !.issues = @ \o <<Issue(index + 1, "multi-timestamp",
                                                        "warning", 0, Len(timestamps))>>]
               ELSE st0
    IN  IF line = <<>> THEN st
        ELSE IF IsMetadata(line) THEN st
        ELSE IF Len(timestamps) = 0 THEN st0
        ELSE LET timestampMs == parseTimestampToMs(timestamps[1])
             IN  IF timestampMs = <<>>
                 THEN [st1 EXCEPT !.issues = @ \o <<Issue(index + 1, "invalid-timestamp",
                                                         "error", 0, 0)>>]
                 ELSE IF timestampMs[1] < 0
                 THEN [st1 EXCEPT !.issues = @ \o <<Issue(index + 1, "negative-timestamp",
                                                         "error", 0, 0)>>]
                 ELSE LET ms == timestampMs[1]
                          dup == ms \in DOMAIN st1.seenTimestamps
                          st2 == IF dup
                                 THEN [st1 EXCEPT !.issues = @ \o
                                          <<Issue(index + 1, "duplicate-timestamp", "warning",
                                                  st1.seenTimestamps[ms], 0)>>]
                                 ELSE [st1 EXCEPT !.seenTimestamps = MapSet(@, ms, index + 1)]
                          st3 == [st2 EXCEPT !.timedLines =
                                     @ \o <<[timestamp |-> ms, line |-> index + 1]>>]
                      IN  IF ~MatchesSingleTimestamp(line)
                          THEN [st3 EXCEPT !.issues = @ \o <<Issue(index + 1, "invalid-format",
                                                                  "error", 0, 0)>>]
                          ELSE st3

\* the body of forEach without the metadata test
ValidateLine_NoMetadataSkip(st, rawLine, index) ==
    LET line == Trim(rawLine)
        elrcMatches == ElrcMatches(line)
        st1 == IF Len(elrcMatches) > 0
               THEN [st EXCEPT !.elrcCount = @ + 1,
                               !.issues = @ \o <<Issue(index + 1, "elrc-word-timing", "error",
                                                       0, Len(elrcMatches))>>]
               ELSE st
        timestamps == AllTimestamps(line)
    IN  IF line = <<>> THEN st
        ELSE IF Len(timestamps) = 0 THEN st1
        ELSE IF Len(timestamps) > 1
        THEN [st1 EXCEPT !.multiTimestampCount = @ + 1,
                         !.issues = @ \o <<Issue(index + 1, "multi-timestamp", "warning",
                                                 0, Len(timestamps))>>]
        ELSE LET timestampMs == parseTimestampToMs(timestamps[1])
             IN  IF timestampMs = <<>>
                 THEN [st1 EXCEPT !.issues = @ \o <<Issue(index + 1, "invalid-timestamp",
                                                         "error", 0, 0)>>]
                 ELSE IF timestampMs[1] < 0
                 THEN [st1 EXCEPT !.issues = @ \o <<Issue(index + 1, "negative-timestamp",
                                                         "error", 0, 0)>>]
                 ELSE LET ms == timestampMs[1]
                          dup == ms \in DOMAIN st1.seenTimestamps
                          st2 == IF dup
                                 THEN [st1 EXCEPT !.issues = @ \o
                                          <<Issue(index + 1, "duplicate-timestamp", "warning",
                                                  st1.seenTimestamps[ms], 0)>>]
                                 ELSE [st1 EXCEPT !.seenTimestamps = MapSet(@, ms, index + 1)]
                          st3 == [st2 EXCEPT !.timedLines =
                                     @ \o <<[timestamp |-> ms, line |-> index + 1]>>]
                      IN  IF ~MatchesSingleTimestamp(line)
                          THEN [st3 EXCEPT !.issues = @ \o <<Issue(index + 1, "invalid-format",
                                                                  "error", 0, 0)>>]
                          ELSE st3

\* the body of lines.forEach in validateLRC for the line at 0-based index
ValidateLine(st, rawLine, index) ==
    LET line == Trim(rawLine)
        elrcMatches == ElrcMatches(line)
        st1 == IF Len(elrcMatches) > 0
               THEN [st EXCEPT !.elrcCount = @ + 1,
                               !.issues = @ \o <<Issue(index + 1, "elrc-word-timing", "error",
                                                       0, Len(elrcMatches))>>]
               ELSE st
        timestamps == AllTimestamps(line)
    IN  IF line = <<>> THEN st
        ELSE IF IsMetadata(line) THEN st
        ELSE IF Len(timestamps) = 0 THEN st1
        ELSE IF Len(timestamps) > 1
        THEN [st1 EXCEPT !.multiTimestampCount = @ + 1,
                         !.issues = @ \o <<Issue(index + 1, "multi-timestamp", "warning",
                                                 0, Len(timestamps))>>]
        ELSE LET timestampMs == parseTimestampToMs(timestamps[1])
             IN  IF timestampMs = <<>>
                 THEN [st1 EXCEPT !.issues = @ \o <<Issue(index + 1, "invalid-timestamp",
                                                         "error", 0, 0)>>]
                 ELSE IF timestampMs[1] < 0
                 THEN [st1 EXCEPT !.issues = @ \o <<Issue(index + 1, "negative-timestamp",
                                                         "error", 0, 0)>>]
                 ELSE LET ms == timestampMs[1]
                          dup == ms \in DOMAIN st1.seenTimestamps
                          st2 == IF dup
                                 THEN [st1 EXCEPT !.issues = @ \o
                                          <<Issue(index + 1, "duplicate-timestamp", "warning",
                                                  st1.seenTimestamps[ms], 0)>>]
                                 ELSE [st1 EXCEPT !.seenTimestamps = MapSet(@, ms, index + 1)]
                          st3 == [st2 EXCEPT !.timedLines =
                                     @ \o <<[timestamp |-> ms, line |-> index + 1]>>]
                      IN  IF ~MatchesSingleTimestamp(line)
                          THEN [st3 EXCEPT !.issues = @ \o <<Issue(index + 1, "invalid-format",
                                                                  "error", 0, 0)>>]
                          ELSE st3

RECURSIVE ValidateLines(_, _, _)
ValidateLines(st, lines, index) ==
    IF index >= Len(lines) THEN st
    ELSE ValidateLines(ValidateLine(st, lines[index + 1], index), lines, index + 1)

\* the out-of-order pass with a non-strict comparison
RECURSIVE OutOfOrderPass_NonStrict(_, _)
OutOfOrderPass_NonStrict(timedLines, i) ==
    IF i > Len(timedLines) THEN <<>>
    ELSE (IF timedLines[i].timestamp <= timedLines[i - 1].timestamp
          THEN <<Issue(timedLines[i].line, "out-of-order", "warning",
                       timedLines[i - 1].line, 0)>>
          ELSE <<>>) \o OutOfOrderPass_NonStrict(timedLines, i + 1)

\* the out-of-order pass, from index i of timedLines on
RECURSIVE OutOfOrderPass(_, _)
OutOfOrderPass(timedLines, i) ==
    IF i > Len(timedLines) THEN <<>>
    ELSE (IF timedLines[i].timestamp < timedLines[i - 1].timestamp
          THEN <<Issue(timedLines[i].line, "out-of-order", "warning",
                       timedLines[i - 1].line, 0)>>
          ELSE <<>>) \o OutOfOrderPass(timedLines, i + 1)

\* the excessive-gap pass with the threshold itself counted as excessive
RECURSIVE ExcessiveGapPass_AtLeast(_, _)
ExcessiveGapPass_AtLeast(timedLines, i) ==
    IF i > Len(timedLines) THEN <<>>
    ELSE LET gap == timedLines[i].timestamp - timedLines[i - 1].timestamp
         IN  (IF gap >= ExcessiveGapMs
              THEN <<Issue(timedLines[i].line, "excessive-gap", "warning",
                           0, Round(gap, 1000))>>
              ELSE <<>>) \o ExcessiveGapPass_AtLeast(timedLines, i + 1)

\* the excessive-gap pass
RECURSIVE ExcessiveGapPass(_, _)
ExcessiveGapPass(timedLines, i) ==
    IF i > Len(timedLines) THEN <<>>
    ELSE LET gap == timedLines[i].timestamp - timedLines[i - 1].timestamp
         IN  (IF gap > ExcessiveGapMs
              THEN <<Issue(timedLines[i].line, "excessive-gap", "warning",
                           0, Round(gap, 1000))>>
              ELSE <<>>) \o ExcessiveGapPass(timedLines, i + 1)

\* the timestamp-overlap pass
RECURSIVE OverlapPass(_, _)
OverlapPass(timedLines, i) ==
    IF i > Len(timedLines) THEN <<>>
    ELSE LET gap == timedLines[i].timestamp - timedLines[i - 1].timestamp
         IN  (IF timedLines[i].timestamp # timedLines[i - 1].timestamp
                 /\ gap > 0 /\ gap < OverlapGapMs
              THEN <<Issue(timedLines[i].line, "timestamp-overlap", "warning", 0, gap)>>
              ELSE <<>>) \o OverlapPass(timedLines, i + 1)

\* content.trim().length > 0
IsNonBlank(c) == \E i \in 1..Len(c) : Trim(c[i]) # <<>>

\* the no-timestamps check without the test for non-blank content
NoTimestampsCheck_AnyContent(timedLines, c) ==
    IF Len(timedLines) = 0
    THEN <<Issue(1, "no-timestamps", "error", 0, 0)>>
    ELSE <<>>

\* the no-timestamps check
NoTimestampsCheck(timedLines, c) ==
    IF Len(timedLines) = 0 /\ IsNonBlank(c)
    THEN <<Issue(1, "no-timestamps", "error", 0, 0)>>
    ELSE <<>>

\* issuesByType that counts each type at most once
RECURSIVE CountByType_Flags(_, _)
CountByType_Flags(issues, counts) ==
    IF issues = <<>> THEN counts
    ELSE CountByType_Flags(Tail(issues), [counts EXCEPT ![Head(issues).type] = 1])

\* issuesByType: zero for every type, then one more per issue
RECURSIVE CountByType(_, _)
CountByType(issues, counts) ==
    IF issues = <<>> THEN counts
    ELSE CountByType(Tail(issues), [counts EXCEPT ![Head(issues).type] = @ + 1])

\* the passes of validateLRC over timedLines after the forEach, and the
\* no-timestamps check: the issues they add to those of the forEach
SequencePasses(timedLines, c) ==
    OutOfOrderPass(timedLines, 2)
    \o ExcessiveGapPass(timedLines, 2)
    \o OverlapPass(timedLines, 2)
    \o NoTimestampsCheck(timedLines, c)

\* the LRCValidationResult validateLRC returns for the issues and the counts
\* it has collected (timedLines is kept beside it for the claims)
ValidationResultOf(st, issues, c) ==
    [isValid |-> Len(issues) = 0,
     issues |-> issues,
     hasMultiTimestamps |-> st.multiTimestampCount > 0,
     hasELRC |-> st.elrcCount > 0,
     hasErrors |-> \E i \in 1..Len(issues) : issues[i].severity = "error",
     hasWarnings |-> \E i \in 1..Len(issues) : issues[i].severity = "warning",
     totalLines |-> Cardinality({i \in 1..Len(c) : Trim(c[i]) # <<>>}),
     affectedLines |-> Len(issues),
     issuesByType |-> CountByType(issues, [t \in IssueTypes |-> 0]),
     timedLines |-> st.timedLines]

\* validateLRC once the forEach has left st
ValidateAfterLines(st, c) ==
    ValidationResultOf(st, st.issues \o SequencePasses(st.timedLines, c), c)

validateLRC(c) ==
    ValidateAfterLines(
        ValidateLines([issues |-> <<>>, multiTimestampCount |-> 0, elrcCount |-> 0,
                       timedLines |-> <<>>, seenTimestamps |-> [x \in {} |-> 0]],
                      c, 0),
        c)

validateSyncedLyrics(syncedLyrics) == validateLRC(syncedLyrics)

\* ------------------------------------------------------------------ inputs

T0 == TS(0, 0, 0, 2)          \* [00:00.00]       0 ms
T5 == TS(0, 5, 0, 2)          \* [00:05.00]    5000 ms
T5b == TS(0, 5, 4, 3)         \* [00:05.004]   5000 ms
T1995 == TS(0, 1, 995, 3)     \* [00:01.995]   2000 ms
T35 == TS(0, 35, 0, 2)        \* [00:35.00]   35000 ms
T35b == TS(0, 35, 70, 2)      \* [00:35.70]   35700 ms

\* the raw lines the normalizer and the sorter are applied to
NormLines ==
    { <<>>, <<SP>>,
      <<META, ChA>>, <<META, T0, T5>>,
      <<ChA>>, <<ChB, T0>>,
      <<T5>>, <<T5, ChA>>, <<SP, T5b, ChB, SP>>, <<T1995, ChB>>,
      <<T5, T1995, SP, ChA>>, <<ChB, T0, ChA, T5b, ChB>> }

\* the raw lines the validator is applied to
ValLines ==
    { <<>>,
      <<META, ChA>>, <<META, T0, T5>>, <<META, T5, ELRC>>,
      <<ChA>>, <<ELRC>>,
      <<T0, ChA>>, <<T5>>, <<SP, T5b, ChB, SP>>, <<T1995, ChA>>,
      <<T35, ChA>>, <<T35b, ChA>>,
      <<ChB, T0>>, <<T0, ChA, CR, ChB>>, <<T5, ELRC, ChA>>,
      <<T0, T5, ChA>> }

\* the contents of at most n lines drawn from a set of lines
Contents(lines, n) == UNION {[1..k -> lines] : k \in 1..n}

\* ------------------------------------------------------------------- state

VARIABLES
    content,        \* the argument of the library function applied
    op,             \* the library function applied, "none" before
    normResult,     \* the NormalizationResult returned
    sortResult,     \* the string sortLRCLines returned
    validResult,    \* the LRCValidationResult returned
    formData,       \* +page.svelte: trackName, artistName, plainLyrics, syncedLyrics
    isSubmitting,
    error,          \* the message shown, "none" for null
    success,
    solveProgress,  \* its attempts
    validationResult,       \* <<>> for null, else <<LRCValidationResult>>
    showValidationWarning,
    validationOverridden,
    validationTimeout,      \* the id setTimeout returned last, 0 for undefined
    timers,         \* the ids of the validation timers that are pending
    pc,             \* where the handleSubmit in flight is suspended, "idle" if none
    challenge,      \* <<>> or <<the Challenge received>>
    worker,         \* the worker of the handleSubmit in flight: "none" for null,
                    \* "live" from new Worker to terminate()
    solver,         \* the worker's side: its phase and the candidate nonce
    channel,        \* the events the worker posted that onmessage has not
                    \* yet been called with, oldest first
    publishRequest  \* <<>> or <<the publish request in flight: its token and, of
                    \* its body, the synced lyrics>>

libVars == <<content, op, normResult, sortResult, validResult>>

pageVars ==
    <<formData, isSubmitting, error, success, solveProgress, validationResult,
      showValidationWarning, validationOverridden, validationTimeout, timers, pc,
      challenge, worker, solver, channel, publishRequest>>

vars == <<libVars, pageVars>>

EmptyContent == << <<>> >>

NoNormResult ==
    [normalized |-> EmptyContent, plainLyrics |-> EmptyContent, changes |-> 0, expandedLines |-> 0]

\* the worker's side when no worker runs
SolverOff == [phase |-> "off", nonce |-> 0]

\* formData as declared and as reset after a successful submission
EmptyForm ==
    [trackName |-> <<>>, artistName |-> <<>>, plainLyrics |-> EmptyContent,
     syncedLyrics |-> EmptyContent]

\* the component's state as declared, before onMount
PageDeclared ==
    /\ formData = EmptyForm
    /\ isSubmitting = FALSE
    /\ error = "none"
    /\ success = FALSE
    /\ solveProgress = 0
    /\ validationResult = <<>>
    /\ showValidationWarning = FALSE
    /\ validationOverridden = FALSE
    /\ validationTimeout = 0
    /\ timers = {}
    /\ pc = "idle"
    /\ challenge = <<>>
    /\ worker = "none"
    /\ solver = SolverOff
    /\ channel = <<>>
    /\ publishRequest = <<>>

LibIdle ==
    /\ content = EmptyContent
    /\ op = "none"
    /\ normResult = NoNormResult
    /\ sortResult = EmptyContent
    /\ validResult = validateLRC(EmptyContent)

InitLib(inputs) ==
    /\ content \in inputs
    /\ op = "none"
    /\ normResult = NoNormResult
    /\ sortResult = EmptyContent
    /\ validResult = validateLRC(EmptyContent)
    /\ PageDeclared

\* a caller applies normalizeLRC to the content
CallNormalizeLRC ==
    /\ op = "none"
    /\ op' = "normalizeLRC"
    /\ normResult' = normalizeLRC(content)
    /\ UNCHANGED <<content, sortResult, validResult>>
    /\ UNCHANGED pageVars

\* a caller applies sortLRCLines to the content
CallSortLRCLines ==
    /\ op = "none"
    /\ op' = "sortLRCLines"
    /\ sortResult' = sortLRCLines(content)
    /\ UNCHANGED <<content, normResult, validResult>>
    /\ UNCHANGED pageVars

\* a caller applies normalizeAndSortLRC to the content
CallNormalizeAndSortLRC ==
    /\ op = "none"
    /\ op' = "normalizeAndSortLRC"
    /\ normResult' = normalizeAndSortLRC(content)
    /\ UNCHANGED <<content, sortResult, validResult>>
    /\ UNCHANGED pageVars

\* a caller applies validateLRC to the content
CallValidateLRC ==
    /\ op = "none"
    /\ op' = "validateLRC"
    /\ validResult' = validateLRC(content)
    /\ UNCHANGED <<content, normResult, sortResult>>
    /\ UNCHANGED pageVars

InitNormalize == InitLib(Contents(NormLines, MaxLines))

NextNormalize ==
    \/ CallNormalizeLRC
    \/ CallSortLRCLines
    \/ CallNormalizeAndSortLRC

SpecNormalize == InitNormalize /\ [][NextNormalize]_vars

InitValidate == InitLib(Contents(ValLines, MaxLines))

NextValidate == CallValidateLRC

SpecValidate == InitValidate /\ [][NextValidate]_vars

\* ------------------------------------------------- routes/+page.svelte

\* what the user types into trackName and artistName
Names == {<<>>, <<ChA>>}

\* what the user types into the synced lyrics: nothing, valid lyrics, a line
\* with an ELRC word timestamp, a multi-timestamp line
PageSynced ==
    { EmptyContent,
      << <<T0, ChA>>, <<T5, ChA>> >>,
      << <<T5, ELRC, ChA>> >>,
      << <<T0, T5, ChA>> >> }

\* what the user types into the plain lyrics
PagePlain == {EmptyContent, << <<ChA>>, <<ChA>> >>}

\* what parseLRCFile returns for the files the user uploads
ParsedFiles ==
    { [title |-> <<>>, artist |-> <<>>, plainLyrics |-> EmptyContent,
       syncedLyrics |-> EmptyContent],
      [title |-> <<ChA>>, artist |-> <<ChA>>, plainLyrics |-> << <<ChA>>, <<ChA>> >>,
       syncedLyrics |-> << <<T0, ChA>>, <<T5, ChA>> >>],
      [title |-> <<ChA>>, artist |-> <<>>, plainLyrics |-> << <<ChA>>, <<ChA>> >>,
       syncedLyrics |-> << <<T5, ELRC, ChA>> >>],
      [title |-> <<>>, artist |-> <<>>, plainLyrics |-> EmptyContent,
       syncedLyrics |-> << <<T0, T5, ChA>> >>] }

\* the prefixes the server issues
Prefixes == {"p1"}

\* the width of the digest in bits, and the largest digest
HashBits == 3

MaxTarget == 2 ^ HashBits - 1

\* the largest candidate nonce the search is followed to
MaxNonce == 2

\* the largest number of progress events waiting in the channel; the worker
\* drops a progress event that finds it full
MaxChannel == 1

\* the largest number of timer ids in use at once
MaxTimers == 2

\* the digest of prefix ++ nonce read as an unsigned integer
Hash(prefix, nonce) == (5 + 7 * nonce) % (MaxTarget + 1)

\* the challenges the server issues to the page: the first candidate fails,
\* the second solves it
Challenges == {[prefix |-> p, target |-> 4] : p \in Prefixes}

\* the challenges a solve is studied on: the largest target, targets the
\* second and the third candidate meet, and one no candidate up to MaxNonce
\* meets
SolveChallenges == {[prefix |-> p, target |-> t] : p \in Prefixes, t \in {MaxTarget, 4, 3, 0}}

\* e.data of the events the worker posts
Msg(type, attempts, nonce, message) ==
    [type |-> type, attempts |-> attempts, nonce |-> nonce, error |-> message]

\* clearTimeout and setTimeout on the set of pending timers: the id of the
\* new timer is the smallest one not in use
ClearTimeout(pending, id) == pending \ {id}

FreeTimers(pending) == (1..MaxTimers) \ pending

SetTimeout(pending) == CHOOSE id \in FreeTimers(pending) : \A other \in FreeTimers(pending) : id <= other





\* s.trim() of a text field is not empty
Filled(name) == Trim(name) # <<>>

\* the disabled attribute of the submit button
SubmitDisabled ==
    \/ isSubmitting
    \/ ~Filled(formData.trackName)
    \/ ~Filled(formData.artistName)
    \/ (validationResult # <<>> /\ ~validationResult[1].isValid /\ ~validationOverridden)

\* {#if showValidationWarning && validationResult}
WarningVisible == showValidationWarning /\ validationResult # <<>>

\* bind:value of trackName and artistName
EditTrackName(name) ==
    /\ formData' = [formData EXCEPT !.trackName = name]
    /\ UNCHANGED <<timers, solver, channel, success, isSubmitting, error, solveProgress, validationResult,
                   showValidationWarning, validationOverridden, validationTimeout, pc,
                   challenge, worker, publishRequest>>
    /\ UNCHANGED libVars

EditArtistName(name) ==
    /\ formData' = [formData EXCEPT !.artistName = name]
    /\ UNCHANGED <<timers, solver, channel, success, isSubmitting, error, solveProgress, validationResult,
                   showValidationWarning, validationOverridden, validationTimeout, pc,
                   challenge, worker, publishRequest>>
    /\ UNCHANGED libVars

\* bind:value of plainLyrics
EditPlainLyrics(text) ==
    /\ formData' = [formData EXCEPT !.plainLyrics = text]
    /\ UNCHANGED <<timers, solver, channel, success, isSubmitting, error, solveProgress, validationResult,
                   showValidationWarning, validationOverridden, validationTimeout, pc,
                   challenge, worker, publishRequest>>
    /\ UNCHANGED libVars

\* handleSyncedLyricsChange without clearTimeout: the pending timer stays
EditSyncedLyrics_NoClear(text) ==
    /\ FreeTimers(timers) # {}
    /\ formData' = [formData EXCEPT !.syncedLyrics = text]
    /\ validationTimeout' = SetTimeout(timers)
    /\ timers' = timers \cup {SetTimeout(timers)}
    /\ UNCHANGED <<solver, channel, isSubmitting, error, success, solveProgress,
                   validationResult, showValidationWarning, validationOverridden, pc,
                   challenge, worker, publishRequest>>
    /\ UNCHANGED libVars

\* bind:value of syncedLyrics and oninput: handleSyncedLyricsChange clears the
\* pending timer and starts a new one
EditSyncedLyrics(text) ==
    /\ FreeTimers(ClearTimeout(timers, validationTimeout)) # {}
    /\ formData' = [formData EXCEPT !.syncedLyrics = text]
    /\ validationTimeout' = SetTimeout(ClearTimeout(timers, validationTimeout))
    /\ timers' = ClearTimeout(timers, validationTimeout)
                     \cup {SetTimeout(ClearTimeout(timers, validationTimeout))}
    /\ UNCHANGED <<solver, channel, isSubmitting, error, success, solveProgress,
                   validationResult, showValidationWarning, validationOverridden, pc,
                   challenge, worker, publishRequest>>
    /\ UNCHANGED libVars

\* the callback handleSyncedLyricsChange gave to setTimeout for timer id
ValidationTimerFires(id) ==
    /\ id \in timers
    /\ timers' = timers \ {id}
    /\ IF IsNonBlank(formData.syncedLyrics)
       THEN \E r \in {validateSyncedLyrics(formData.syncedLyrics)} :
                /\ validationResult' = <<r>>
                /\ validationOverridden' = FALSE
                /\ showValidationWarning' = IF ~r.isValid THEN TRUE ELSE showValidationWarning
       ELSE /\ showValidationWarning' = FALSE
            /\ UNCHANGED <<validationResult, validationOverridden>>
    /\ UNCHANGED <<formData, isSubmitting, error, success, solveProgress, pc,
                   validationTimeout, challenge, worker, solver, channel,
                   publishRequest>>
    /\ UNCHANGED libVars

\* onchange of the file input, after file.text() and parseLRCFile
UploadFile(parsed) ==
    /\ formData' = [trackName |-> IF parsed.title # <<>> THEN parsed.title
                                  ELSE formData.trackName,
                    artistName |-> IF parsed.artist # <<>> THEN parsed.artist
                                   ELSE formData.artistName,
                    plainLyrics |-> parsed.plainLyrics,
                    syncedLyrics |-> parsed.syncedLyrics]
    /\ IF parsed.syncedLyrics # EmptyContent
       THEN \E r \in {validateSyncedLyrics(parsed.syncedLyrics)} :
                /\ validationResult' = <<r>>
                /\ validationOverridden' = FALSE
                /\ showValidationWarning' = IF ~r.isValid THEN TRUE ELSE showValidationWarning
       ELSE UNCHANGED <<validationResult, validationOverridden, showValidationWarning>>
    /\ UNCHANGED <<timers, solver, channel, success, isSubmitting, error, solveProgress, validationTimeout, pc,
                   challenge, worker, publishRequest>>
    /\ UNCHANGED libVars

\* onDismiss of ValidationWarning: its close button and Continue Anyway
Dismiss ==
    /\ WarningVisible
    /\ showValidationWarning' = FALSE
    /\ validationOverridden' = TRUE
    /\ UNCHANGED <<timers, solver, channel, success, formData, isSubmitting, error, solveProgress, validationResult,
                   validationTimeout, pc, challenge, worker, publishRequest>>
    /\ UNCHANGED libVars

\* the Auto-fix button of ValidationWarning: handleNormalize
HandleNormalize ==
    /\ WarningVisible
    /\ validationResult[1].hasMultiTimestamps
    /\ IF ~IsNonBlank(formData.syncedLyrics)
       THEN UNCHANGED <<formData, validationResult, validationOverridden,
                        showValidationWarning, error>>
       ELSE \E result \in {normalizeAndSortLRC(formData.syncedLyrics)} :
            \E r \in {validateSyncedLyrics(result.normalized)} :
                /\ formData' = [formData EXCEPT !.syncedLyrics = result.normalized,
                                                !.plainLyrics = result.plainLyrics]
                /\ validationResult' = <<r>>
                /\ validationOverridden' = FALSE
                /\ showValidationWarning' = ~r.isValid
                /\ error' = IF ~r.isValid THEN "Normalized. Please review remaining issues."
                                          ELSE "Normalized. No issues remaining!"
    /\ UNCHANGED <<timers, solver, channel, success, isSubmitting, solveProgress, validationTimeout, pc, challenge,
                   worker, publishRequest>>
    /\ UNCHANGED libVars

\* the callback setError gave to setTimeout
ErrorTimeout ==
    /\ error # "none"
    /\ error' = "none"
    /\ UNCHANGED <<timers, solver, channel, success, formData, isSubmitting, solveProgress, validationResult,
                   showValidationWarning, validationOverridden, validationTimeout, pc,
                   challenge, worker, publishRequest>>
    /\ UNCHANGED libVars

\* the callback setSuccess gave to setTimeout
SuccessTimeout ==
    /\ success
    /\ success' = FALSE
    /\ UNCHANGED <<timers, solver, channel, formData, isSubmitting, error, solveProgress, validationResult,
                   showValidationWarning, validationOverridden, validationTimeout, pc,
                   challenge, worker, publishRequest>>
    /\ UNCHANGED libVars

\* validateBeforeSubmit from the validation result on: the test of
\* hasMultiTimestamps
GateOn(r, show) ==
    IF ~r.isValid /\ r.hasMultiTimestamps
    THEN [ret |-> FALSE, validationResult |-> <<r>>, showValidationWarning |-> TRUE]
    ELSE [ret |-> TRUE, validationResult |-> <<r>>, showValidationWarning |-> show]

\* validateBeforeSubmit with the override honoured: no check after Continue Anyway
validateBeforeSubmit_HonourOverride(fd, vr, show, overridden) ==
    IF ~IsNonBlank(fd.syncedLyrics) \/ overridden
    THEN [ret |-> TRUE, validationResult |-> vr, showValidationWarning |-> show]
    ELSE GateOn(validateSyncedLyrics(fd.syncedLyrics), show)

\* validateBeforeSubmit: what it returns and what it leaves in validationResult
\* and showValidationWarning (it also clears isSubmitting when it returns false)
validateBeforeSubmit(fd, vr, show, overridden) ==
    IF ~IsNonBlank(fd.syncedLyrics)
    THEN [ret |-> TRUE, validationResult |-> vr, showValidationWarning |-> show]
    ELSE GateOn(validateSyncedLyrics(fd.syncedLyrics), show)

\* how the synchronous part of handleSubmit ends: "required" (a required
\* field is blank), "unconfirmed" (no lyrics and confirm() answered no),
\* "gate" (validateBeforeSubmit returned false) or "challenge" (the challenge
\* is requested); gateReturns is what validateBeforeSubmit returns if called
SubmitOutcome(fd, confirmed, gateReturns) ==
    IF ~Filled(fd.trackName) \/ ~Filled(fd.artistName) THEN "required"
    ELSE IF ~IsNonBlank(fd.plainLyrics) /\ ~IsNonBlank(fd.syncedLyrics) /\ ~confirmed
    THEN "unconfirmed"
    ELSE IF ~gateReturns THEN "gate"
    ELSE "challenge"

\* handleSubmit that does not set isSubmitting before it awaits the challenge
HandleSubmit_FlagNotSet(confirmed) ==
    /\ ~SubmitDisabled
    /\ pc = "idle"
    /\ \E v \in {validateBeforeSubmit(formData, validationResult, FALSE,
                                      validationOverridden)} :
       \E outcome \in {SubmitOutcome(formData, confirmed, v.ret)} :
           /\ error' = CASE outcome = "required" /\ ~Filled(formData.trackName) ->
                                "Track name is required"
                         [] outcome = "required" /\ Filled(formData.trackName) ->
                                "Artist name is required"
                         [] outcome = "unconfirmed" ->
                                "Please provide lyrics or confirm if this is an instrumental track"
                         [] OTHER -> "none"
           /\ showValidationWarning' =
                  IF outcome \in {"gate", "challenge"} THEN v.showValidationWarning ELSE FALSE
           /\ validationResult' =
                  IF outcome \in {"gate", "challenge"} THEN v.validationResult
                  ELSE validationResult
           /\ success' = FALSE
           /\ isSubmitting' = FALSE
           /\ pc' = IF outcome = "challenge" THEN "awaitChallenge" ELSE "idle"
    /\ UNCHANGED <<timers, solver, channel, formData, solveProgress, validationOverridden, validationTimeout,
                   challenge, worker, publishRequest>>
    /\ UNCHANGED libVars

\* handleSubmit from the submit event to its first await or its return;
\* confirmed is the answer confirm() gives if it is asked
HandleSubmit(confirmed) ==
    /\ ~SubmitDisabled
    /\ pc = "idle"
    /\ \E v \in {validateBeforeSubmit(formData, validationResult, FALSE,
                                      validationOverridden)} :
       \E outcome \in {SubmitOutcome(formData, confirmed, v.ret)} :
           /\ error' = CASE outcome = "required" /\ ~Filled(formData.trackName) ->
                                "Track name is required"
                         [] outcome = "required" /\ Filled(formData.trackName) ->
                                "Artist name is required"
                         [] outcome = "unconfirmed" ->
                                "Please provide lyrics or confirm if this is an instrumental track"
                         [] OTHER -> "none"
           /\ showValidationWarning' =
                  IF outcome \in {"gate", "challenge"} THEN v.showValidationWarning ELSE FALSE
           /\ validationResult' =
                  IF outcome \in {"gate", "challenge"} THEN v.validationResult
                  ELSE validationResult
           /\ success' = FALSE
           /\ isSubmitting' = (outcome = "challenge")
           /\ pc' = IF outcome = "challenge" THEN "awaitChallenge" ELSE "idle"
    /\ UNCHANGED <<timers, solver, channel, formData, solveProgress, validationOverridden, validationTimeout,
                   challenge, worker, publishRequest>>
    /\ UNCHANGED libVars

\* requestChallenge returns: solveProgress is reset, the worker is created and
\* given the challenge, and its search starts from the first candidate
ChallengeReceived(c) ==
    /\ pc = "awaitChallenge"
    /\ challenge' = <<c>>
    /\ solveProgress' = 0
    /\ worker' = "live"
    /\ solver' = [phase |-> "searching", nonce |-> 0]
    /\ channel' = <<>>
    /\ pc' = "awaitWorker"
    /\ UNCHANGED <<timers, success, formData, isSubmitting, error, validationResult,
                   showValidationWarning, validationOverridden, validationTimeout,
                   publishRequest>>
    /\ UNCHANGED libVars

\* requestChallenge throws: catch, then finally
ChallengeFailed ==
    /\ pc = "awaitChallenge"
    /\ error' = "Failed to get challenge"
    /\ isSubmitting' = FALSE
    /\ pc' = "idle"
    /\ UNCHANGED <<timers, solver, channel, success, formData, solveProgress, validationResult, showValidationWarning,
                   validationOverridden, validationTimeout, challenge, worker,
                   publishRequest>>
    /\ UNCHANGED libVars

\* the worker's attempt that goes on searching after it has posted the
\* success event
SolverAttempt_KeepsSearching(post) ==
    /\ solver.phase = "searching"
    /\ IF Hash(challenge[1].prefix, solver.nonce) <= challenge[1].target
       THEN /\ solver' = [solver EXCEPT !.nonce = IF @ < MaxNonce THEN @ + 1 ELSE @]
            /\ Len(channel) <= MaxChannel
            /\ channel' = Append(channel, Msg("success", 0, solver.nonce, ""))
       ELSE /\ solver.nonce < MaxNonce
            /\ solver' = [solver EXCEPT !.nonce = @ + 1]
            /\ channel' = IF post /\ Len(channel) < MaxChannel
                           THEN Append(channel, Msg("progress", solver.nonce + 1,
                                                    solver.nonce, ""))
                           ELSE channel
    /\ UNCHANGED <<timers, formData, isSubmitting, error, success, solveProgress,
                   validationResult, showValidationWarning, validationOverridden,
                   validationTimeout, pc, challenge, worker, publishRequest>>
    /\ UNCHANGED libVars

\* the worker's attempt that accepts only a digest below the target
SolverAttempt_Below(post) ==
    /\ solver.phase = "searching"
    /\ IF Hash(challenge[1].prefix, solver.nonce) < challenge[1].target
       THEN /\ solver' = [solver EXCEPT !.phase = "stopped"]
            /\ channel' = Append(channel, Msg("success", 0, solver.nonce, ""))
       ELSE /\ solver.nonce < MaxNonce
            /\ solver' = [solver EXCEPT !.nonce = @ + 1]
            /\ channel' = IF post /\ Len(channel) < MaxChannel
                           THEN Append(channel, Msg("progress", solver.nonce + 1,
                                                    solver.nonce, ""))
                           ELSE channel
    /\ UNCHANGED <<timers, formData, isSubmitting, error, success, solveProgress,
                   validationResult, showValidationWarning, validationOverridden,
                   validationTimeout, pc, challenge, worker, publishRequest>>
    /\ UNCHANGED libVars

\* the worker tries its candidate nonce: a digest at or below the target ends
\* the search with the success event; otherwise the next candidate is taken
\* and, if post, a progress event is sent unless the channel is full
SolverAttempt(post) ==
    /\ solver.phase = "searching"
    /\ IF Hash(challenge[1].prefix, solver.nonce) <= challenge[1].target
       THEN /\ solver' = [solver EXCEPT !.phase = "stopped"]
            /\ channel' = Append(channel, Msg("success", 0, solver.nonce, ""))
       ELSE /\ solver.nonce < MaxNonce
            /\ solver' = [solver EXCEPT !.nonce = @ + 1]
            /\ channel' = IF post /\ Len(channel) < MaxChannel
                           THEN Append(channel, Msg("progress", solver.nonce + 1,
                                                    solver.nonce, ""))
                           ELSE channel
    /\ UNCHANGED <<timers, formData, isSubmitting, error, success, solveProgress,
                   validationResult, showValidationWarning, validationOverridden,
                   validationTimeout, pc, challenge, worker, publishRequest>>
    /\ UNCHANGED libVars

\* hashing fails in the worker: the search ends with the error event
SolverFails ==
    /\ solver.phase = "searching"
    /\ solver' = [solver EXCEPT !.phase = "stopped"]
    /\ channel' = Append(channel, Msg("error", 0, 0, "worker error"))
    /\ UNCHANGED <<timers, formData, isSubmitting, error, success, solveProgress,
                   validationResult, showValidationWarning, validationOverridden,
                   validationTimeout, pc, challenge, worker, publishRequest>>
    /\ UNCHANGED libVars

\* finally of handleSubmit with the worker set to null but not terminated
TerminateWorker_Leak ==
    /\ worker' = "none"
    /\ UNCHANGED <<solver, channel>>

\* finally of handleSubmit: worker.terminate() stops the search and discards
\* the events not yet delivered; worker = null
TerminateWorker ==
    /\ worker' = "none"
    /\ solver' = SolverOff
    /\ channel' = <<>>

\* worker.onmessage with a progress event
WorkerProgress ==
    /\ worker = "live"
    /\ channel # <<>>
    /\ Head(channel).type = "progress"
    /\ channel' = Tail(channel)
    /\ solveProgress' = Head(channel).attempts
    /\ UNCHANGED <<timers, solver, success, formData, isSubmitting, error,
                   validationResult, showValidationWarning, validationOverridden,
                   validationTimeout, pc, challenge, worker, publishRequest>>
    /\ UNCHANGED libVars

\* worker.onmessage with the success event: resolve(nonce); if the promise
\* was pending, handleSubmit goes on and sends the publish request with the
\* form as it is now
WorkerSuccess ==
    /\ worker = "live"
    /\ channel # <<>>
    /\ Head(channel).type = "success"
    /\ channel' = Tail(channel)
    /\ IF pc = "awaitWorker"
       THEN /\ publishRequest' = <<[token |-> <<challenge[1].prefix, Head(channel).nonce>>,
                                    syncedLyrics |-> formData.syncedLyrics]>>
            /\ pc' = "awaitPublish"
       ELSE UNCHANGED <<publishRequest, pc>>
    /\ UNCHANGED <<timers, solver, success, formData, isSubmitting, error, solveProgress,
                   validationResult, showValidationWarning, validationOverridden,
                   validationTimeout, challenge, worker>>
    /\ UNCHANGED libVars

\* worker.onmessage with the error event where the promise goes on to the
\* publish request as if it had resolved
WorkerError_Publishes ==
    /\ worker = "live"
    /\ channel # <<>>
    /\ Head(channel).type = "error"
    /\ channel' = Tail(channel)
    /\ IF pc = "awaitWorker"
       THEN /\ publishRequest' = <<[token |-> <<challenge[1].prefix, Head(channel).nonce>>,
                                    syncedLyrics |-> formData.syncedLyrics]>>
            /\ pc' = "awaitPublish"
       ELSE UNCHANGED <<publishRequest, pc>>
    /\ UNCHANGED <<timers, solver, success, formData, isSubmitting, error, solveProgress,
                   validationResult, showValidationWarning, validationOverridden,
                   validationTimeout, challenge, worker>>
    /\ UNCHANGED libVars

\* worker.onmessage with the error event: reject(new Error(error)); if the
\* promise was pending, catch shows the message and finally terminates the
\* worker
WorkerError ==
    /\ worker = "live"
    /\ channel # <<>>
    /\ Head(channel).type = "error"
    /\ IF pc = "awaitWorker"
       THEN /\ error' = Head(channel).error
            /\ isSubmitting' = FALSE
            /\ TerminateWorker
            /\ challenge' = <<>>
            /\ pc' = "idle"
       ELSE /\ channel' = Tail(channel)
            /\ UNCHANGED <<error, isSubmitting, worker, solver, challenge, pc>>
    /\ UNCHANGED <<timers, success, formData, solveProgress, validationResult,
                   showValidationWarning, validationOverridden, validationTimeout,
                   publishRequest>>
    /\ UNCHANGED libVars

\* the publish response is ok: the form is reset; finally
PublishAccepted ==
    /\ pc = "awaitPublish"
    /\ success' = TRUE
    /\ formData' = EmptyForm
    /\ isSubmitting' = FALSE
    /\ TerminateWorker
    /\ challenge' = <<>>
    /\ publishRequest' = <<>>
    /\ pc' = "idle"
    /\ UNCHANGED <<timers, error, solveProgress, validationResult,
                   showValidationWarning, validationOverridden, validationTimeout>>
    /\ UNCHANGED libVars

\* the publish response is not ok, or fetch throws: catch, finally
PublishRejected ==
    /\ pc = "awaitPublish"
    /\ error' = "Failed to publish lyrics"
    /\ isSubmitting' = FALSE
    /\ TerminateWorker
    /\ challenge' = <<>>
    /\ publishRequest' = <<>>
    /\ pc' = "idle"
    /\ UNCHANGED <<timers, success, formData, solveProgress, validationResult,
                   showValidationWarning, validationOverridden, validationTimeout>>
    /\ UNCHANGED libVars

\* after onMount: the names may come from the URL
Init ==
    /\ LibIdle
    /\ formData \in {[EmptyForm EXCEPT !.trackName = t, !.artistName = a] :
                        t \in Names, a \in Names}
    /\ isSubmitting = FALSE
    /\ error = "none"
    /\ success = FALSE
    /\ solveProgress = 0
    /\ validationResult = <<>>
    /\ showValidationWarning = FALSE
    /\ validationOverridden = FALSE
    /\ validationTimeout = 0
    /\ timers = {}
    /\ pc = "idle"
    /\ challenge = <<>>
    /\ worker = "none"
    /\ solver = SolverOff
    /\ channel = <<>>
    /\ publishRequest = <<>>

Next ==
    \/ \E name \in Names : EditTrackName(name)
    \/ \E name \in Names : EditArtistName(name)
    \/ \E text \in PagePlain : EditPlainLyrics(text)
    \/ \E text \in PageSynced : EditSyncedLyrics(text)
    \/ \E id \in 1..MaxTimers : ValidationTimerFires(id)
    \/ \E parsed \in ParsedFiles : UploadFile(parsed)
    \/ Dismiss
    \/ HandleNormalize
    \/ ErrorTimeout
    \/ SuccessTimeout
    \/ \E confirmed \in BOOLEAN : HandleSubmit(confirmed)
    \/ \E c \in Challenges : ChallengeReceived(c)
    \/ ChallengeFailed
    \/ \E post \in BOOLEAN : SolverAttempt(post)
    \/ SolverFails
    \/ WorkerProgress
    \/ WorkerSuccess
    \/ WorkerError
    \/ PublishAccepted
    \/ PublishRejected

Spec == Init /\ [][Next]_vars

\* the submission alone, on every challenge of SolveChallenges: the form is
\* filled in and submitted, the synced lyrics are left alone
NextSolve ==
    \/ \E name \in Names : EditTrackName(name)
    \/ \E name \in Names : EditArtistName(name)
    \/ \E text \in PagePlain : EditPlainLyrics(text)
    \/ ErrorTimeout
    \/ SuccessTimeout
    \/ \E confirmed \in BOOLEAN : HandleSubmit(confirmed)
    \/ \E c \in SolveChallenges : ChallengeReceived(c)
    \/ ChallengeFailed
    \/ \E post \in BOOLEAN : SolverAttempt(post)
    \/ SolverFails
    \/ WorkerProgress
    \/ WorkerSuccess
    \/ WorkerError
    \/ PublishAccepted
    \/ PublishRejected

SpecSolve == Init /\ [][NextSolve]_vars

\* the same with a worker that keeps running: its thread is scheduled as long
\* as it searches
LiveSolve == Init /\ [][NextSolve]_vars /\ WF_vars(\E post \in BOOLEAN : SolverAttempt(post))

\* the synced-lyrics field alone: typing, uploading, auto-fix and the warning
\* panel, with the browser running every timer that stays pending
NextDebounce ==
    \/ \E text \in PageSynced : EditSyncedLyrics(text)
    \/ \E id \in 1..MaxTimers : ValidationTimerFires(id)
    \/ \E parsed \in ParsedFiles : UploadFile(parsed)
    \/ Dismiss
    \/ HandleNormalize

\* the step in which the browser runs the callback of a pending timer, by its
\* effect on the table of pending timers: ValidationTimerFires is the only
\* action that takes a timer out of it
TimerCallbackRuns == \E id \in timers : timers' = timers \ {id}

LiveDebounce == Init /\ [][NextDebounce]_vars /\ WF_timers(TimerCallbackRuns)

\* ------------------------------------------- what the claims are stated in

\* the millisecond value of a timestamp token as the specification defines it:
\* minutes*60000 + seconds*1000 + hundredths*10, a three-digit fraction first
\* rounded to the nearest 10 ms
CodecMs(t) ==
    LET hundredths == IF t.digits = 3 THEN (t.frac + 5) \div 10 ELSE t.frac
    IN  t.mm * 60000 + t.ss * 1000 + hundredths * 10

\* the text of a line after its last timestamp token
RECURSIVE AfterLastTimestamp(_)
AfterLastTimestamp(line) ==
    IF line = <<>> \/ IsTs(line[Len(line)]) THEN <<>>
    ELSE AfterLastTimestamp(SubSeq(line, 1, Len(line) - 1)) \o <<line[Len(line)]>>

\* the number of timestamp tokens of a raw line that is neither blank nor
\* metadata, 0 for a blank or metadata line
TokenCount(rawLine) ==
    IF Trim(rawLine) = <<>> \/ IsMetadata(Trim(rawLine)) THEN 0
    ELSE Len(AllTimestamps(Trim(rawLine)))

\* the number of output lines a raw line stands for
EmitCount(rawLine) == IF TokenCount(rawLine) > 1 THEN TokenCount(rawLine) ELSE 1

RECURSIVE SumOver(_, _, _)
SumOver(F(_), c, n) == IF n = 0 THEN 0 ELSE F(c[n]) + SumOver(F, c, n - 1)

\* the position in the output of the first line that stands for input line i
OutPos(c, i) == 1 + SumOver(EmitCount, c, i - 1)

ExpandedCount(rawLine) == IF TokenCount(rawLine) > 1 THEN TokenCount(rawLine) ELSE 0

ChangeCount(rawLine) == IF TokenCount(rawLine) > 1 THEN 1 ELSE 0

\* the subsequence of the lines for which P holds
LinesWhere(c, P(_)) == SelectSeq(c, P)

IsTimedLine(line) == StartsWithTimestamp(line)

IsOtherLine(line) == line # <<>> /\ ~IsMetadata(line) /\ ~StartsWithTimestamp(line)

\* the timestamped lines of a content are in non-decreasing millisecond order
Chronological(c) ==
    LET timed == LinesWhere(c, IsTimedLine)
    IN  \A i, j \in 1..Len(timed) : i < j => CodecMs(timed[i][1]) <= CodecMs(timed[j][1])

\* ------------------------------------------------------------------ claims

\* C1: expansion law of normalizeLRC.  Every non-blank, non-metadata input
\* line with N > 1 timestamp tokens stands in the output, at its position,
\* as N consecutive lines, the k-th being the k-th token with a fraction of
\* exactly two digits followed by the text after the last token; changes
\* counts such lines and expandedLines sums their N.
C1_ExpansionLaw ==
    op = "normalizeLRC" =>
        LET out == normResult.normalized
        IN  /\ \A i \in 1..Len(content) :
                   TokenCount(content[i]) > 1 =>
                       LET line == Trim(content[i])
                           toks == AllTimestamps(line)
                           p == OutPos(content, i)
                       IN  /\ p + Len(toks) - 1 <= Len(out)
                           /\ \A k \in 1..Len(toks) :
                                  LET o == out[p + k - 1]
                                  IN  /\ o # <<>>
                                      /\ IsTs(o[1])
                                      /\ o[1].mm = toks[k].mm
                                      /\ o[1].ss = toks[k].ss
                                      /\ o[1].digits = 2
                                      /\ Tail(o) = AfterLastTimestamp(line)
            /\ normResult.changes = SumOver(ChangeCount, content, Len(content))
            /\ normResult.expandedLines = SumOver(ExpandedCount, content, Len(content))

\* the precondition of C2: every line trimmed and non-blank, at most one
\* timestamp token per line, metadata first, then the timestamped lines in
\* non-decreasing millisecond order, then the other lines
NormalizedAndSorted(c) ==
    /\ \A i \in 1..Len(c) :
           /\ c[i] # <<>>
           /\ Trim(c[i]) = c[i]
           /\ Len(AllTimestamps(c[i])) <= 1
    /\ c = LinesWhere(c, IsMetadata) \o LinesWhere(c, IsTimedLine) \o LinesWhere(c, IsOtherLine)
    /\ Chronological(c)

\* C2: idempotence of normalizeAndSortLRC.  On a content that is already
\* normalized and sorted, the normalized text returned is the input and
\* changes is 0.
C2_Idempotence ==
    (op = "normalizeAndSortLRC" /\ NormalizedAndSorted(content)) =>
        /\ normResult.normalized = content
        /\ normResult.changes = 0

\* the trimmed lines of a content that start with a timestamp of value ms
TimedLinesAt(c, ms) ==
    LET trimmed == [i \in 1..Len(c) |-> Trim(c[i])]
    IN  SelectSeq(trimmed, LAMBDA l : IsTimedLine(l) /\ CodecMs(l[1]) = ms)

\* C3: in the output of sortLRCLines the lines that start with a timestamp
\* are in non-decreasing order of millisecond value, and lines of equal
\* value keep their relative order of the input.
C3_SortedByMs ==
    op = "sortLRCLines" =>
        /\ Chronological(sortResult)
        /\ \A i \in 1..Len(sortResult) :
               IsTimedLine(sortResult[i]) =>
                   LET ms == CodecMs(sortResult[i][1])
                   IN  TimedLinesAt(sortResult, ms) = TimedLinesAt(content, ms)

\* the timestamped lines of a content that have a lyric text, in document
\* order: the millisecond value and the trimmed text of each
RECURSIVE LyricTexts(_)
LyricTexts(c) ==
    IF c = <<>> THEN <<>>
    ELSE LET line == Trim(Head(c))
         IN  (IF IsTimedLine(line) /\ Trim(Tail(line)) # <<>>
              THEN <<[ms |-> CodecMs(line[1]), text |-> Trim(Tail(line))]>>
              ELSE <<>>) \o LyricTexts(Tail(c))

\* how many of the positions lo+1..lo+k of a sequence hold x
CountIn(seq, lo, k, x) == Cardinality({i \in (lo + 1)..(lo + k) : seq[i] = x})

\* C4: the plainLyrics normalizeAndSortLRC returns are the trimmed, non-empty
\* lyric texts of the timestamped lines of the normalized text it returns,
\* one per line, in chronological order of their timestamps: the texts of
\* the lines of one millisecond value, in any order among themselves, stand
\* after the texts of all lines of smaller value and before those of larger.
C4_PlainLyricsRoundTrip ==
    op = "normalizeAndSortLRC" =>
        LET texts == LyricTexts(normResult.normalized)
            plain == normResult.plainLyrics
            idx == 1..Len(texts)
        IN  IF texts = <<>> THEN plain = EmptyContent
            ELSE /\ Len(plain) = Len(texts)
                 /\ \A j \in idx :
                        LET lo == Cardinality({i \in idx : texts[i].ms < texts[j].ms})
                            k == Cardinality({i \in idx : texts[i].ms = texts[j].ms})
                        IN  CountIn(plain, lo, k, texts[j].text) =
                                Cardinality({i \in idx : /\ texts[i].ms = texts[j].ms
                                                         /\ texts[i].text = texts[j].text})

\* the numbers of the single-timestamp lines of a content, in document order
RECURSIVE TimedLineNumbers(_, _)
TimedLineNumbers(c, n) ==
    IF n = 0 THEN <<>>
    ELSE TimedLineNumbers(c, n - 1) \o (IF TokenCount(c[n]) = 1 THEN <<n>> ELSE <<>>)

\* the millisecond value of single-timestamp line n
LineMs(c, n) == CodecMs(AllTimestamps(Trim(c[n]))[1])

\* the positions in the issue list of the issues of a type on a line
IssuesAt(issues, type, n) ==
    {k \in 1..Len(issues) : issues[k].type = type /\ issues[k].line = n}

\* the positions in the issue list of the issues of a type
IssuesOfType(issues, type) == {k \in 1..Len(issues) : issues[k].type = type}

\* C5: duplicate detection keys on the millisecond value.  A single-timestamp
\* line whose value an earlier single-timestamp line has carries exactly one
\* duplicate-timestamp warning, which names the first line of that value;
\* every other line carries none.
C5_DuplicateByMs ==
    op = "validateLRC" =>
        LET issues == validResult.issues
            timed == TimedLineNumbers(content, Len(content))
            nums == {timed[k] : k \in 1..Len(timed)}
        IN  \A n \in 1..Len(content) :
                LET earlier == IF n \in nums
                               THEN {m \in nums : m < n /\ LineMs(content, m) = LineMs(content, n)}
                               ELSE {}
                    at == IssuesAt(issues, "duplicate-timestamp", n)
                IN  IF earlier # {}
                    THEN /\ Cardinality(at) = 1
                         /\ \A k \in at :
                                /\ issues[k].severity = "warning"
                                /\ issues[k].ref \in earlier
                                /\ \A m \in earlier : issues[k].ref <= m
                    ELSE at = {}

\* two spellings and three occurrences of one value: the third occurrence is
\* flagged and names the first
C5_Witness ==
    /\ op = "validateLRC"
    /\ Len(content) = 3
    /\ \A n \in 1..3 : TokenCount(content[n]) = 1 /\ LineMs(content, n) = 5000
    /\ AllTimestamps(content[1]) # AllTimestamps(Trim(content[2]))
    /\ \E k \in 1..Len(validResult.issues) :
           validResult.issues[k] = Issue(3, "duplicate-timestamp", "warning", 1, 0)

\* C6: exactly one out-of-order warning for each pair of adjacent timed lines
\* whose later value is strictly smaller; it is on the later line and names
\* the preceding one; no other line carries one.
C6_OutOfOrderAdjacent ==
    op = "validateLRC" =>
        LET issues == validResult.issues
            timed == TimedLineNumbers(content, Len(content))
        IN  /\ \A k \in 2..Len(timed) :
                   LET at == IssuesAt(issues, "out-of-order", timed[k])
                   IN  IF LineMs(content, timed[k]) < LineMs(content, timed[k - 1])
                       THEN /\ Cardinality(at) = 1
                            /\ \A j \in at : /\ issues[j].ref = timed[k - 1]
                                             /\ issues[j].severity = "warning"
                       ELSE at = {}
            /\ \A j \in IssuesOfType(issues, "out-of-order") :
                   \E k \in 2..Len(timed) : issues[j].line = timed[k]

\* a non-adjacent inversion (line 3 is earlier than line 1 but not than line
\* 2) goes unreported while the adjacent one is reported
C6_Witness ==
    /\ op = "validateLRC"
    /\ TimedLineNumbers(content, Len(content)) = <<1, 2, 3>>
    /\ LineMs(content, 2) < LineMs(content, 1)
    /\ LineMs(content, 3) < LineMs(content, 1)
    /\ LineMs(content, 3) >= LineMs(content, 2)
    /\ IssuesOfType(validResult.issues, "out-of-order") # {}
    /\ IssuesAt(validResult.issues, "out-of-order", 3) = {}

\* C7: exactly one excessive-gap warning on the later line of each adjacent
\* pair of timed lines whose gap is strictly greater than 30000 ms, showing
\* the gap in whole seconds, rounded; none for any other line.
C7_ExcessiveGap ==
    op = "validateLRC" =>
        LET issues == validResult.issues
            timed == TimedLineNumbers(content, Len(content))
        IN  /\ \A k \in 2..Len(timed) :
                   LET gap == LineMs(content, timed[k]) - LineMs(content, timed[k - 1])
                       at == IssuesAt(issues, "excessive-gap", timed[k])
                   IN  IF gap > 30000
                       THEN /\ Cardinality(at) = 1
                            /\ \A j \in at :
                                   /\ issues[j].severity = "warning"
                                   /\ issues[j].num * 1000 - gap <= 500
                                   /\ gap - issues[j].num * 1000 <= 500
                                   /\ gap = 35000 => issues[j].num = 35
                       ELSE at = {}
            /\ \A j \in IssuesOfType(issues, "excessive-gap") :
                   \E k \in 2..Len(timed) : issues[j].line = timed[k]

\* a gap of 35000 ms is reported as 35 s on the later line, the negative gap
\* before it is not reported
C7_Witness ==
    /\ op = "validateLRC"
    /\ TimedLineNumbers(content, Len(content)) = <<1, 2, 3>>
    /\ LineMs(content, 2) - LineMs(content, 1) = -35000
    /\ LineMs(content, 3) - LineMs(content, 2) = 35000
    /\ IssuesAt(validResult.issues, "excessive-gap", 2) = {}
    /\ \E k \in 1..Len(validResult.issues) :
           validResult.issues[k] = Issue(3, "excessive-gap", "warning", 0, 35)

\* C8: a no-timestamps error is emitted exactly when the content is not blank
\* and no line was recorded as a timed line; it is then emitted once, names
\* line 1, is the last issue, and isValid is false.
C8_NoTimestamps ==
    op = "validateLRC" =>
        LET issues == validResult.issues
            found == IssuesOfType(issues, "no-timestamps")
        IN  /\ validResult.timedLines = <<>> <=>
                   TimedLineNumbers(content, Len(content)) = <<>>
            /\ IF IsNonBlank(content) /\ TimedLineNumbers(content, Len(content)) = <<>>
               THEN /\ found = {Len(issues)}
                    /\ issues[Len(issues)] = Issue(1, "no-timestamps", "error", 0, 0)
                    /\ ~validResult.isValid
               ELSE found = {}

\* a content of a metadata line, a plain line and a multi-timestamp line: the
\* multi-timestamp warning comes first, the no-timestamps error last
C8_Witness ==
    /\ op = "validateLRC"
    /\ Len(content) = 3
    /\ IsMetadata(content[1])
    /\ TokenCount(content[2]) = 0 /\ Trim(content[2]) # <<>>
    /\ TokenCount(content[3]) > 1
    /\ Len(validResult.issues) = 2
    /\ validResult.issues[2].type = "no-timestamps"
    /\ ~validResult.isValid

\* C9: the aggregate fields of the result agree with its issue list.
C9_AggregatesAgree ==
    op = "validateLRC" =>
        LET issues == validResult.issues
        IN  /\ validResult.isValid <=> issues = <<>>
            /\ validResult.hasErrors <=> \E k \in 1..Len(issues) : issues[k].severity = "error"
            /\ validResult.hasWarnings <=>
                   \E k \in 1..Len(issues) : issues[k].severity = "warning"
            /\ validResult.hasMultiTimestamps <=> IssuesOfType(issues, "multi-timestamp") # {}
            /\ validResult.hasELRC <=> IssuesOfType(issues, "elrc-word-timing") # {}
            /\ validResult.affectedLines = Len(issues)
            /\ DOMAIN validResult.issuesByType = IssueTypes
            /\ Cardinality(IssueTypes) = 10
            /\ \A t \in IssueTypes :
                   validResult.issuesByType[t] = Cardinality(IssuesOfType(issues, t))

\* a result with errors and warnings, a multi-timestamp line, an ELRC line
\* and two issues of one type
C9_Witness ==
    /\ op = "validateLRC"
    /\ validResult.hasErrors /\ validResult.hasWarnings
    /\ validResult.hasMultiTimestamps /\ validResult.hasELRC
    /\ validResult.issuesByType["multi-timestamp"] = 2
    /\ validResult.affectedLines = 4

\* some non-blank, non-metadata line of a content has more than one bracket
\* timestamp token
HasMultiTimestampLine(c) == \E i \in 1..Len(c) : TokenCount(c[i]) > 1

\* C10: the submission gate.  A handleSubmit is stopped by
\* validateBeforeSubmit (it returns with the warning panel switched on and no
\* challenge requested) exactly when the synced lyrics are not blank and
\* their fresh validation result has hasMultiTimestamps set, whatever
\* validationOverridden is; non-blank synced lyrics with issues of other
\* types only go on to the challenge request.
C10_SubmissionGate ==
    [][\A confirmed \in BOOLEAN :
           HandleSubmit(confirmed) =>
               LET nonBlank == IsNonBlank(formData.syncedLyrics)
                   stopped == pc' = "idle" /\ showValidationWarning'
               IN  /\ nonBlank =>
                          /\ validationResult' = <<validateLRC(formData.syncedLyrics)>>
                          /\ validationResult'[1].hasMultiTimestamps <=>
                                 HasMultiTimestampLine(formData.syncedLyrics)
                   /\ stopped <=> (nonBlank /\ validationResult'[1].hasMultiTimestamps)
                   /\ stopped => ~isSubmitting' /\ challenge' = <<>> /\ worker' = "none"
                   /\ (nonBlank /\ ~stopped) => pc' = "awaitChallenge"]_vars

\* the gate has stopped a submission although the user clicked Continue
\* Anyway: the panel is on again while the override is still set
C10_Witness ==
    /\ pc = "idle"
    /\ ~isSubmitting
    /\ showValidationWarning
    /\ validationOverridden
    /\ validationResult = <<validateLRC(formData.syncedLyrics)>>
    /\ validationResult[1].hasMultiTimestamps

\* C11: solver event ordering.  Every event onmessage is called with arrives
\* while the promise of its solve is still pending, that is before the
\* terminal event of that solve; and when the terminal event (success or
\* error) is delivered, the promise is settled, no event is left in the
\* channel and the worker searches no more, so no event follows it.
C11_EventOrdering ==
    [][(WorkerProgress \/ WorkerSuccess \/ WorkerError) =>
           /\ pc = "awaitWorker"
           /\ Head(channel).type \in {"success", "error"} =>
                  /\ pc' # "awaitWorker"
                  /\ channel' = <<>>
                  /\ solver'.phase # "searching"]_vars

\* a progress event and then the success event have been delivered, and the
\* worker is still alive
C11_Witness ==
    /\ pc = "awaitPublish"
    /\ worker = "live"
    /\ solveProgress > 0
    /\ solver.phase = "stopped"
    /\ channel = <<>>

\* the candidate at which the search started at 0 must stop: the least nonce
\* whose digest is at or below the target
IsFirstSolution(c, n) ==
    /\ Hash(c.prefix, n) <= c.target
    /\ \A m \in 0..(n - 1) : Hash(c.prefix, m) > c.target

\* the event posted last is the success event carrying the first solution
SolvedWithFirst ==
    /\ solver.phase = "stopped"
    /\ channel # <<>>
    /\ channel[Len(channel)].type = "success"
    /\ IsFirstSolution(challenge[1], channel[Len(channel)].nonce)

\* the event posted last is the error event
SolveErrored ==
    /\ solver.phase = "stopped"
    /\ channel # <<>>
    /\ channel[Len(channel)].type = "error"

\* C12: solver result and liveness.  Candidates are tried upward from 0, so
\* every success event carries the least nonce whose digest is at or below
\* the target; an attempt against the maximum target is the first one and
\* ends the search; and a search that still has a satisfying candidate at or
\* above its current one ends, with the success event for the first solution
\* unless hashing failed and the error event was posted.
C12_SolverResultAndLiveness ==
    /\ [](\A i \in 1..Len(channel) :
             channel[i].type = "success" =>
                 IsFirstSolution(challenge[1], channel[i].nonce))
    /\ [][(\E post \in BOOLEAN : SolverAttempt(post)) =>
              /\ \A m \in 0..(solver.nonce - 1) :
                     Hash(challenge[1].prefix, m) > challenge[1].target
              /\ solver'.nonce \in {solver.nonce, solver.nonce + 1}
              /\ challenge[1].target = MaxTarget =>
                     solver.nonce = 0 /\ solver'.phase = "stopped"]_vars
    /\ (solver.phase = "searching"
          /\ \E n \in solver.nonce..MaxNonce :
                 Hash(challenge[1].prefix, n) <= challenge[1].target)
           ~> (SolvedWithFirst \/ SolveErrored)

\* the search went past two failing candidates and posted the success event
\* for the third
C12_Witness ==
    /\ SolvedWithFirst
    /\ channel[Len(channel)].nonce = 2
    /\ challenge[1].target < MaxTarget

\* C13: publish after success, once.  A publish request appears only in the
\* step that receives the success event while the solve of this submission
\* is awaited, with the token made of the prefix of this submission's
\* challenge and the nonce of that event; once sent it is not replaced until
\* the submission has ended.  The step that receives the error event instead
\* sends nothing, ends the submission with the worker terminated and no solve
\* running, and shows the event's message.
C13_PublishAfterSuccessOnce ==
    [][/\ (publishRequest' # publishRequest /\ publishRequest' # <<>>) =>
              /\ publishRequest = <<>>
              /\ pc = "awaitWorker"
              /\ pc' = "awaitPublish"
              /\ channel # <<>>
              /\ Head(channel).type = "success"
              /\ challenge' = challenge
              /\ publishRequest'[1].token =
                     <<challenge[1].prefix, Head(channel).nonce>>
       /\ (publishRequest # <<>> /\ publishRequest' # publishRequest) =>
              publishRequest' = <<>> /\ pc' = "idle"
       /\ (pc = "awaitWorker" /\ channel # <<>> /\ Head(channel).type = "error"
            /\ channel' # channel) =>
              /\ publishRequest' = <<>>
              /\ pc' = "idle"
              /\ worker' = "none"
              /\ solver' = SolverOff
              /\ error' = Head(channel).error]_vars

\* the publish request of a submission whose solve needed a second candidate
C13_Witness ==
    /\ pc = "awaitPublish"
    /\ publishRequest # <<>>
    /\ publishRequest[1].token = <<challenge[1].prefix, 1>>
    /\ error = "none"

TimedLineIssueTypes ==
    {"duplicate-timestamp", "out-of-order", "excessive-gap", "timestamp-overlap",
     "invalid-timestamp", "invalid-format"}

\* the issues of some types, in the order of the issue list
IssuesAmong(issues, types) == SelectSeq(issues, LAMBDA i : i.type \in types)

\* a content with line n replaced by the empty line
Blanked(c, n) == [c EXCEPT ![n] = <<>>]

\* line n of a content is a non-metadata line with several timestamps
IsMultiTimestampLine(c, n) == TokenCount(c[n]) > 1

\* C15: a multi-timestamp line is checked no further.  A non-metadata line
\* with more than one timestamp carries exactly one multi-timestamp warning;
\* it is not among the timed lines, no issue of a timed-line type is on it or
\* names it, and the timed lines and the issues of those types are the ones
\* of the content with that line left empty, so the line is nobody's
\* previous line.
C15_MultiTimestampLineSkipped ==
    op = "validateLRC" =>
        \A n \in 1..Len(content) :
            IsMultiTimestampLine(content, n) =>
                /\ Cardinality(IssuesAt(validResult.issues, "multi-timestamp", n)) = 1
                /\ \A k \in IssuesAt(validResult.issues, "multi-timestamp", n) :
                       /\ validResult.issues[k].severity = "warning"
                       /\ validResult.issues[k].num = TokenCount(content[n])
                /\ \A k \in 1..Len(validResult.timedLines) :
                       validResult.timedLines[k].line # n
                /\ \A k \in 1..Len(validResult.issues) :
                       validResult.issues[k].type \in TimedLineIssueTypes =>
                           /\ validResult.issues[k].line # n
                           /\ validResult.issues[k].ref # n
                /\ validResult.timedLines = validateLRC(Blanked(content, n)).timedLines
                /\ IssuesAmong(validResult.issues, TimedLineIssueTypes) =
                       IssuesAmong(validateLRC(Blanked(content, n)).issues,
                                   TimedLineIssueTypes)

\* a multi-timestamp line between two timed lines: its first timestamp is the
\* one of line 1, and the gap warning of line 3 is measured from line 1
C15_Witness ==
    /\ op = "validateLRC"
    /\ Len(content) = 3
    /\ TimedLineNumbers(content, 3) = <<1, 3>>
    /\ IsMultiTimestampLine(content, 2)
    /\ CodecMs(AllTimestamps(Trim(content[2]))[1]) = LineMs(content, 1)
    /\ \E k \in IssuesAt(validResult.issues, "excessive-gap", 3) :
           validResult.issues[k].ref = 0 \/ validResult.issues[k].ref = 1
    /\ IssuesAt(validResult.issues, "duplicate-timestamp", 2) = {}

\* C16: metadata lines are never flagged.  A line that starts with a metadata
\* tag carries no issue of a type other than no-timestamps, is named by no
\* issue and is not among the timed lines, whatever follows the tag; the
\* timed lines and the other issues are those of the content with that line
\* left empty.
C16_MetadataNeverFlagged ==
    op = "validateLRC" =>
        \A n \in 1..Len(content) :
            IsMetadata(Trim(content[n])) =>
                /\ \A k \in 1..Len(validResult.issues) :
                       /\ validResult.issues[k].type # "no-timestamps" =>
                              validResult.issues[k].line # n
                       /\ validResult.issues[k].ref # n
                /\ \A k \in 1..Len(validResult.timedLines) :
                       validResult.timedLines[k].line # n
                /\ validResult.timedLines = validateLRC(Blanked(content, n)).timedLines
                /\ IssuesAmong(validResult.issues, IssueTypes \ {"no-timestamps"}) =
                       IssuesAmong(validateLRC(Blanked(content, n)).issues,
                                   IssueTypes \ {"no-timestamps"})

\* metadata lines holding a timestamp with a word timing and holding two
\* timestamps, next to a timed line of the same timestamp: no issue at all
C16_Witness ==
    /\ op = "validateLRC"
    /\ content = << <<T5>>, <<META, T5, ELRC>>, <<META, T0, T5>> >>
    /\ validResult.isValid
    /\ Len(validResult.timedLines) = 1

\* C17: normalization preserves timestamp values.  Every token of a line
\* rewritten by normalizeLRC is re-emitted with a fraction of two digits that
\* parseTimestampToMs reads as the same millisecond value as the token it
\* was made from.
C17_TimestampValuePreserved ==
    op = "normalizeLRC" =>
        \A i \in 1..Len(content) :
            TokenCount(content[i]) > 1 =>
                \A k \in 1..TokenCount(content[i]) :
                    LET t == AllTimestamps(Trim(content[i]))[k]
                        o == Head(normResult.normalized[OutPos(content, i) + k - 1])
                    IN  /\ IsTs(o)
                        /\ o.digits = 2
                        /\ parseTimestampToMs(o) = parseTimestampToMs(t)

\* C19: auto-fix removes every multi-timestamp issue.  The normalized text
\* normalizeAndSortLRC returns has no line with more than one timestamp
\* token, metadata lines (which are copied as they are and which the
\* validator skips) apart, and validateLRC of it reports no multi-timestamp
\* issue.
C19_AutoFixRemovesMultiTimestamps ==
    op = "normalizeAndSortLRC" =>
        /\ \A i \in 1..Len(normResult.normalized) :
               IsMetadata(Trim(normResult.normalized[i]))
                   \/ Len(AllTimestamps(normResult.normalized[i])) <= 1
        /\ ~validateLRC(normResult.normalized).hasMultiTimestamps
        /\ validateLRC(normResult.normalized).issuesByType["multi-timestamp"] = 0
        /\ ~HasMultiTimestampLine(normResult.normalized)

\* a content the validator reports multi-timestamp lines in, two of them,
\* after auto-fix
C19_Witness ==
    /\ op = "normalizeAndSortLRC"
    /\ validateLRC(content).issuesByType["multi-timestamp"] >= 2
    /\ normResult.changes >= 2
    /\ ~validateLRC(normResult.normalized).hasMultiTimestamps

\* C18: worker cleanup.  A worker is alive only while handleSubmit awaits it
\* or the publish response; once handleSubmit has completed the worker is
\* terminated and isSubmitting is false; and a terminated worker searches no
\* more and has no event left to deliver, so none reaches the page.
C18_WorkerCleanup ==
    /\ worker = "live" <=> pc \in {"awaitWorker", "awaitPublish"}
    /\ pc = "idle" => worker = "none" /\ ~isSubmitting
    /\ worker = "none" => solver = SolverOff /\ channel = <<>>

\* a submission that ended with the worker's error event after a progress
\* event had been shown
C18_Witness ==
    /\ pc = "idle"
    /\ error = "worker error"
    /\ solveProgress > 0
    /\ worker = "none"
    /\ ~isSubmitting

\* C20: the published lyrics passed the gate.  No publish request carries
\* synced lyrics with a multi-timestamp line.
C20_PublishedLyricsPassedGate ==
    publishRequest # <<>> => ~HasMultiTimestampLine(publishRequest[1].syncedLyrics)

\* the submit button is disabled by the validation result alone: the
\* required fields are filled, no submission is in flight, and
\* validationResult is invalid and not overridden
BlockedByValidation ==
    /\ Filled(formData.trackName)
    /\ Filled(formData.artistName)
    /\ ~isSubmitting
    /\ pc = "idle"
    /\ validationResult # <<>>
    /\ ~validationResult[1].isValid
    /\ ~validationOverridden

\* C21: the user can always get past a validation block.  Whenever the
\* submit button is disabled by the validation result alone, the warning
\* panel with Continue Anyway is on the page.
C21_BlockHasWayOut == BlockedByValidation => WarningVisible

\* C22: one submission, one worker.  handleSubmit starts only with the
\* submit button enabled, from then until it completes isSubmitting is set,
\* which keeps the button disabled, so no handleSubmit starts and no
\* challenge is requested while one is pending; a worker is created only by
\* the pending submission, when none exists, and exists only while that
\* submission awaits it or the publish response.
C22_SingleSubmission ==
    /\ [](pc # "idle" => isSubmitting /\ SubmitDisabled)
    /\ [](worker = "live" => isSubmitting /\ pc \in {"awaitWorker", "awaitPublish"})
    /\ [][/\ (\E confirmed \in BOOLEAN : HandleSubmit(confirmed)) =>
                 ~isSubmitting /\ pc = "idle" /\ worker = "none"
          /\ (pc' = "awaitChallenge" /\ pc # "awaitChallenge") =>
                 ~SubmitDisabled /\ isSubmitting'
          /\ (worker' = "live" /\ worker # "live") =>
                 pc = "awaitChallenge" /\ isSubmitting /\ isSubmitting'
          /\ (isSubmitting /\ ~isSubmitting') => pc' = "idle" /\ worker' = "none"]_vars

\* a submission awaiting its worker with a form that would otherwise allow
\* submitting: only isSubmitting keeps the button disabled
C22_Witness ==
    /\ pc = "awaitWorker"
    /\ worker = "live"
    /\ isSubmitting
    /\ Filled(formData.trackName)
    /\ Filled(formData.artistName)
    /\ (validationResult = <<>> \/ validationResult[1].isValid \/ validationOverridden)

\* the trimmed, non-blank lines of a content, in document order
TrimmedNonBlankLines(c) ==
    SelectSeq([i \in 1..Len(c) |-> Trim(c[i])], LAMBDA l : l # <<>>)

\* the lines of a text sortLRCLines returned: the empty string has none
OutputLines(out) == IF out = EmptyContent THEN <<>> ELSE out

\* the number of times a line occurs in a sequence of lines
Occurrences(ls, l) == Cardinality({i \in 1..Len(ls) : ls[i] = l})

\* C23: sortLRCLines only reorders.  The lines of its output are, counted
\* with multiplicity, the trimmed non-blank lines of its input; metadata
\* lines come first, then the lines that start with a timestamp, then the
\* others; metadata lines and other lines are in their input order.
C23_SortOnlyReorders ==
    op = "sortLRCLines" =>
        LET out == OutputLines(sortResult)
            inp == TrimmedNonBlankLines(content)
        IN  /\ Len(out) = Len(inp)
            /\ \A i \in 1..Len(inp) : Occurrences(out, inp[i]) = Occurrences(inp, inp[i])
            /\ \A i \in 1..Len(out) : Occurrences(inp, out[i]) = Occurrences(out, out[i])
            /\ \A i, j \in 1..Len(out) :
                   i < j => /\ IsMetadata(out[j]) => IsMetadata(out[i])
                            /\ IsTimedLine(out[j]) => ~IsOtherLine(out[i])
            /\ LinesWhere(out, IsMetadata) = LinesWhere(inp, IsMetadata)
            /\ LinesWhere(out, IsOtherLine) = LinesWhere(inp, IsOtherLine)

\* an input of an other line, a padded timestamped line and a metadata line,
\* which come out trimmed and in the opposite order
C23_Witness ==
    /\ op = "sortLRCLines"
    /\ Len(content) = 3
    /\ IsOtherLine(Trim(content[1]))
    /\ IsTimedLine(Trim(content[2])) /\ content[2] # Trim(content[2])
    /\ IsMetadata(Trim(content[3]))
    /\ sortResult = <<Trim(content[3]), Trim(content[2]), Trim(content[1])>>

====
